---------------------------- MODULE Spec2Model ----------------------------
(***************************************************************************)
(* LTC2942 battery gas gauge driver (src/LTC2942.cpp, src/LTC2942.h).      *)
(*                                                                         *)
(* The driver is single threaded and blocking: every public method is one  *)
(* atomic action.  The device is a bank of one-byte registers reached      *)
(* through a two-wire transport whose transactions may fail.               *)
(*                                                                         *)
(* Integer widths are those of the 32-bit target the library is written    *)
(* for: unsigned char 8 bits, short 16 bits, int and long 32 bits, little  *)
(* endian.                                                                 *)
(***************************************************************************)
EXTENDS Integers, Sequences, FiniteSets, TLC

(***************************************************************************)
(* Program constants                                                       *)
(***************************************************************************)
STATUS_REG == 0
CONTROL_REG == 1
ACCUM_CHARGE_MSB_REG == 2
ACCUM_CHARGE_LSB_REG == 3
VOLTAGE_MSB_REG == 8
VOLTAGE_LSB_REG == 9
TEMPERATURE_MSB_REG == 12
TEMPERATURE_LSB_REG == 13

DEVICE_ID == 0

AUTOMATIC_MODE == 192
CHARGE_COMPLETE_MODE == 2
SHUTDOWN_MODE == 1

PRESCALAR_M_1 == 0
PRESCALAR_M_2 == 8
PRESCALAR_M_4 == 16
PRESCALAR_M_8 == 24
PRESCALAR_M_16 == 32
PRESCALAR_M_32 == 40
PRESCALAR_M_64 == 48
PRESCALAR_M_128 == 56

FULLSCALE_VOLTAGE == 6000
FULLSCALE_TEMPERATURE == 600

\* return codes of the register accessors ("0 success, 1 fail")
SUCCESS == 0
FAIL == 1

\* <limits.h>
USHRT_MAX == 65535
SHRT_MAX == 32767

(***************************************************************************)
(* Bounds of the model                                                     *)
(***************************************************************************)
\* error codes the transport's endTransmission may return: 0..MaxWireErr
MaxWireErr == 1
\* sense resistors explored by the calibration check: 1..MaxR milliohm
MaxR == 8

(***************************************************************************)
(* Machine arithmetic                                                      *)
(***************************************************************************)
U8(x) == x % 256
U16(x) == x % 65536
\* conversion to signed short (two's complement)
S16(x) == LET u == x % 65536 IN IF u >= 32768 THEN u - 65536 ELSE u
\* int, unsigned int and unsigned long arithmetic: the largest intermediate the
\* driver forms is 65535 * 6000 < 2^31, so no 32-bit operation wraps and the
\* operations below are the exact ones (TLC itself stops on a 32-bit overflow)

RECURSIVE BitOr(_, _)
BitOr(a, b) ==
    IF a = 0 THEN b
    ELSE IF b = 0 THEN a
    ELSE 2 * BitOr(a \div 2, b \div 2) + (IF a % 2 = 1 \/ b % 2 = 1 THEN 1 ELSE 0)

RECURSIVE BitAnd(_, _)
BitAnd(a, b) ==
    IF a = 0 \/ b = 0 THEN 0
    ELSE 2 * BitAnd(a \div 2, b \div 2) + (IF a % 2 = 1 /\ b % 2 = 1 THEN 1 ELSE 0)

\* byte [0] taken where byte [1] is meant
HighByteMutIndex(val) == val % 256
\* ((unsigned char*)&val)[1] and [0] of an unsigned short on a little-endian target
HighByte(val) == (val \div 256) % 256
LowByte(val) == val % 256
\* the unsigned short whose byte [1] is hi and byte [0] is lo
Assemble(hi, lo) == hi * 256 + lo

(***************************************************************************)
(* Constructor: prescaler selection and conversion coefficients            *)
(***************************************************************************)
\* a = 278524 * k / R / 128 in unsigned int arithmetic
RepresentableCapacity(k, r) == ((278524 * k) \div r) \div 128

\* the loop with the test a < Q in place of a < 2 * Q
RECURSIVE PrescalerLoopMutNoMargin(_, _, _, _)
PrescalerLoopMutNoMargin(k, m, q, r) ==
    IF k > 1
    THEN IF RepresentableCapacity(k, r) < q
         THEN [k |-> k, M |-> m]
         ELSE PrescalerLoopMutNoMargin(k \div 2, U8(m - 1), q, r)
    ELSE [k |-> k, M |-> m]

\* the for loop of the constructor, entered with (k, m) = (128, 7)
RECURSIVE PrescalerLoop(_, _, _, _)
PrescalerLoop(k, m, q, r) ==
    IF k > 1
    THEN IF RepresentableCapacity(k, r) < 2 * q
         THEN [k |-> k, M |-> m]
         ELSE PrescalerLoop(k \div 2, U8(m - 1), q, r)
    ELSE [k |-> k, M |-> m]

\* the three coefficient members are integer fields wide enough for every
\* value the constructor stores (a 32-bit int): storing is exact
IntField(x) == x

NumOf(k) == IntField(17 * k)
\* the denominator without the factor 4 the numerator was scaled by
DenOfMutUnscaled(r) == IntField(128 * r)
DenOf(r) == IntField(4 * 128 * r)
OffsetOf(num, den, q) == IntField(((65535 * num) \div den) - q)

LTC2942(q, r) ==
    LET loop == PrescalerLoop(128, 7, q, r)
        num  == NumOf(loop.k)
        den  == DenOf(r)
    IN  [M |-> loop.M, Num |-> num, Den |-> den, Offset |-> OffsetOf(num, den, q)]

(***************************************************************************)
(* State                                                                   *)
(***************************************************************************)
VARIABLES
    Q, R,           \* the constructor's arguments (capacity in mAh, resistor in mOhm)
    M, Num, Den, Offset,   \* the members the constructor sets
    dev,            \* the device's registers: register address -> byte
    op,             \* the method that just returned; "idle" between calls, "new"
                    \* before construction
    arg,            \* the argument of setRawCharge (pending or last used)
    ret,            \* what the last method returned
    out,            \* what the last method stored in its reference parameter
    log,            \* the register transactions the last method issued, in order
    ctrlBefore,     \* the device's control register when the last method was entered
    lastSet         \* {v}: the last setRawCharge wrote v, all its transactions succeeded
                    \* and the accumulator has not moved since; {} otherwise

cal == <<Q, R, M, Num, Den, Offset>>
vars == <<Q, R, M, Num, Den, Offset, dev, op, arg, ret, out, log, ctrlBefore, lastSet>>

\* the registers the driver touches
Regs == {STATUS_REG, CONTROL_REG, ACCUM_CHARGE_MSB_REG, ACCUM_CHARGE_LSB_REG,
         VOLTAGE_MSB_REG, VOLTAGE_LSB_REG, TEMPERATURE_MSB_REG, TEMPERATURE_LSB_REG}

\* result of a method declared void
VOID == -1

(***************************************************************************)
(* Register transport adapter                                              *)
(***************************************************************************)
\* ok: requestFrom returned exactly one byte
readRegister(d, reg, ok) ==
    [ret    |-> IF ok THEN SUCCESS ELSE FAIL,
     output |-> IF ok THEN d[reg] ELSE 255,
     entry  |-> [kind |-> "read", reg |-> reg, val |-> IF ok THEN d[reg] ELSE 255, ok |-> ok]]

\* err: what endTransmission returned (0 on success); a transaction that was
\* not acknowledged leaves the device's register as it was
writeRegister(d, reg, val, err) ==
    [ret   |-> U8(err),
     dev   |-> IF err = 0 THEN [d EXCEPT ![reg] = BitAnd(val, 255)] ELSE d,
     entry |-> [kind |-> "write", reg |-> reg, val |-> BitAnd(val, 255), ok |-> (err = 0)]]

\* retCode |= ...
OrRetMutAssign(a, b) == b
OrRet(a, b) == BitOr(a, b)

(***************************************************************************)
(* setRawCharge                                                            *)
(***************************************************************************)
ShutdownValue(reg_save) == BitOr(reg_save, SHUTDOWN_MODE)

RestoreValueMutShutdown(reg_save) == BitOr(reg_save, SHUTDOWN_MODE)
RestoreValue(reg_save) == reg_save

\* e[1..4]: the return codes of the four writes
setRawChargeMutLsbFirst(d, val, rdOk, e) ==
    LET r0 == readRegister(d, CONTROL_REG, rdOk)
        reg_save == r0.output
        w1 == writeRegister(d, CONTROL_REG, ShutdownValue(reg_save), e[1])
        w2 == writeRegister(w1.dev, ACCUM_CHARGE_LSB_REG, LowByte(val), e[3])
        w3 == writeRegister(w2.dev, ACCUM_CHARGE_MSB_REG, HighByte(val), e[2])
        w4 == writeRegister(w3.dev, CONTROL_REG, RestoreValue(reg_save), e[4])
    IN  [dev |-> w4.dev,
         ret |-> OrRet(OrRet(OrRet(OrRet(r0.ret, w1.ret), w2.ret), w3.ret), w4.ret),
         log |-> <<r0.entry, w1.entry, w2.entry, w3.entry, w4.entry>>]

setRawChargeCode(d, val, rdOk, e) ==
    LET r0 == readRegister(d, CONTROL_REG, rdOk)
        reg_save == r0.output
        w1 == writeRegister(d, CONTROL_REG, ShutdownValue(reg_save), e[1])
        w2 == writeRegister(w1.dev, ACCUM_CHARGE_MSB_REG, HighByte(val), e[2])
        w3 == writeRegister(w2.dev, ACCUM_CHARGE_LSB_REG, LowByte(val), e[3])
        w4 == writeRegister(w3.dev, CONTROL_REG, RestoreValue(reg_save), e[4])
    IN  [dev |-> w4.dev,
         ret |-> OrRet(OrRet(OrRet(OrRet(r0.ret, w1.ret), w2.ret), w3.ret), w4.ret),
         log |-> <<r0.entry, w1.entry, w2.entry, w3.entry, w4.entry>>]

setRawCharge(val, rdOk, e) ==
    LET c == setRawChargeCode(dev, val, rdOk, e)
    IN  /\ op = "idle"
        /\ dev' = c.dev
        /\ op' = "setRawCharge"
        /\ arg' = val
        /\ ret' = c.ret
        /\ out' = 0
        /\ log' = c.log
        /\ ctrlBefore' = dev[CONTROL_REG]
        /\ lastSet' = IF \A i \in 1..Len(c.log) : c.log[i].ok THEN {val} ELSE {}
        /\ UNCHANGED cal

(***************************************************************************)
(* Accessors                                                               *)
(***************************************************************************)
\* the two reads every accessor starts with: MSB register into byte [1],
\* LSB register into byte [0]
ReadCode(d, msbReg, lsbReg, ok1, ok2) ==
    LET r1 == readRegister(d, msbReg, ok1)
        r2 == readRegister(d, lsbReg, ok2)
    IN  [ret  |-> OrRet(r1.ret, r2.ret),
         code |-> Assemble(r1.output, r2.output),
         log  |-> <<r1.entry, r2.entry>>]

getRawChargeCode(d, ok1, ok2) ==
    LET c == ReadCode(d, ACCUM_CHARGE_MSB_REG, ACCUM_CHARGE_LSB_REG, ok1, ok2)
    IN  [ret |-> c.ret, log |-> c.log,
         out |-> IF c.ret = FAIL THEN USHRT_MAX ELSE c.code]

VoltageOf(adc_code) == U16((adc_code * FULLSCALE_VOLTAGE) \div 65536)

getVoltageCode(d, ok1, ok2) ==
    LET c == ReadCode(d, VOLTAGE_MSB_REG, VOLTAGE_LSB_REG, ok1, ok2)
    IN  [ret |-> c.ret, log |-> c.log,
         out |-> IF c.ret = FAIL THEN USHRT_MAX ELSE VoltageOf(c.code)]

TemperatureOf(adc_code) ==
    S16(S16((adc_code * FULLSCALE_TEMPERATURE) \div 65536) - 2731)

getTemperatureCode(d, ok1, ok2) ==
    LET c == ReadCode(d, TEMPERATURE_MSB_REG, TEMPERATURE_LSB_REG, ok1, ok2)
    IN  [ret |-> c.ret, log |-> c.log,
         out |-> IF c.ret = FAIL THEN SHRT_MAX ELSE TemperatureOf(c.code)]

\* (unsigned short)(((unsigned long)adc_code * Num / Den) - Offset): the
\* subtraction wraps modulo 2^32 and the cast keeps its low 16 bits
CapacityOf(adc_code, num, den, offset) ==
    U16(((adc_code * num) \div den) - offset)

getAvailableCapacityCode(d, ok1, ok2, num, den, offset) ==
    LET c == ReadCode(d, ACCUM_CHARGE_MSB_REG, ACCUM_CHARGE_LSB_REG, ok1, ok2)
    IN  [ret |-> c.ret, log |-> c.log,
         out |-> IF c.ret = FAIL THEN USHRT_MAX ELSE CapacityOf(c.code, num, den, offset)]

\* what every accessor does with its result
Access(name, c) ==
    /\ op = "idle"
    /\ op' = name
    /\ ret' = c.ret
    /\ out' = c.out
    /\ log' = c.log
    /\ ctrlBefore' = dev[CONTROL_REG]
    /\ UNCHANGED <<cal, dev, arg, lastSet>>

getRawCharge(ok1, ok2) == Access("getRawCharge", getRawChargeCode(dev, ok1, ok2))
getVoltage(ok1, ok2) == Access("getVoltage", getVoltageCode(dev, ok1, ok2))
getTemperature(ok1, ok2) == Access("getTemperature", getTemperatureCode(dev, ok1, ok2))
getAvailableCapacity(ok1, ok2) ==
    Access("getAvailableCapacity", getAvailableCapacityCode(dev, ok1, ok2, Num, Den, Offset))

(***************************************************************************)
(* ping and init                                                           *)
(***************************************************************************)
pingCode(d, ok) ==
    LET r == readRegister(d, STATUS_REG, ok)
    IN  [ret |-> IF r.ret = SUCCESS
                 THEN (IF BitAnd(r.output, 192) = DEVICE_ID THEN 1 ELSE 0)
                 ELSE 0,
         log |-> <<r.entry>>]

ping(ok) ==
    LET c == pingCode(dev, ok)
    IN  /\ op = "idle"
        /\ op' = "ping"
        /\ ret' = c.ret
        /\ out' = 0
        /\ log' = c.log
        /\ ctrlBefore' = dev[CONTROL_REG]
        /\ UNCHANGED <<cal, dev, arg, lastSet>>

\* the switch of init
PrescalerBits(m) ==
    CASE m = 0 -> PRESCALAR_M_1
      [] m = 1 -> PRESCALAR_M_2
      [] m = 2 -> PRESCALAR_M_4
      [] m = 3 -> PRESCALAR_M_8
      [] m = 4 -> PRESCALAR_M_16
      [] m = 5 -> PRESCALAR_M_32
      [] m = 6 -> PRESCALAR_M_64
      [] OTHER -> PRESCALAR_M_128

initCode(d, m, err) ==
    LET configuration ==
            BitOr(BitOr(AUTOMATIC_MODE, CHARGE_COMPLETE_MODE), PrescalerBits(m))
        w == writeRegister(d, CONTROL_REG, configuration, err)
    IN  [dev |-> w.dev, ret |-> VOID, log |-> <<w.entry>>]

init(err) ==
    LET c == initCode(dev, M, err)
    IN  /\ op = "idle"
        /\ dev' = c.dev
        /\ op' = "init"
        /\ ret' = c.ret
        /\ out' = 0
        /\ log' = c.log
        /\ ctrlBefore' = dev[CONTROL_REG]
        /\ UNCHANGED <<cal, arg, lastSet>>

(***************************************************************************)
(* The device on its own: the accumulator counts charge                    *)
(***************************************************************************)
ChargeVals == {4660, 27859}

Accumulate(code) ==
    /\ op = "idle"
    /\ Assemble(dev[ACCUM_CHARGE_MSB_REG], dev[ACCUM_CHARGE_LSB_REG]) # code
    /\ dev' = [dev EXCEPT ![ACCUM_CHARGE_MSB_REG] = HighByte(code),
                          ![ACCUM_CHARGE_LSB_REG] = LowByte(code)]
    /\ lastSet' = {}
    /\ UNCHANGED <<cal, op, arg, ret, out, log, ctrlBefore>>

(***************************************************************************)
(* The caller: calls are synchronous, one at a time; it takes the result   *)
(* of the call that returned before it makes the next one                  *)
(***************************************************************************)
Return ==
    /\ op \notin {"new", "idle"}
    /\ op' = "idle"
    /\ ret' = VOID
    /\ out' = 0
    /\ log' = <<>>
    /\ ctrlBefore' = dev[CONTROL_REG]
    /\ UNCHANGED <<cal, dev, arg, lastSet>>

(***************************************************************************)
(* Construction                                                            *)
(***************************************************************************)
Construct ==
    LET c == LTC2942(Q, R)
    IN  /\ op = "new"
        /\ M' = c.M
        /\ Num' = c.Num
        /\ Den' = c.Den
        /\ Offset' = c.Offset
        /\ op' = "idle"
        /\ UNCHANGED <<Q, R, dev, arg, ret, out, log, ctrlBefore, lastSet>>

\* a device with the given control, status and measurement registers
Device(status, ctrl, charge, voltage, temperature) ==
    [r \in Regs |->
        CASE r = STATUS_REG -> status
          [] r = CONTROL_REG -> ctrl
          [] r = ACCUM_CHARGE_MSB_REG -> HighByte(charge)
          [] r = ACCUM_CHARGE_LSB_REG -> LowByte(charge)
          [] r = VOLTAGE_MSB_REG -> HighByte(voltage)
          [] r = VOLTAGE_LSB_REG -> LowByte(voltage)
          [] r = TEMPERATURE_MSB_REG -> HighByte(temperature)
          [] r = TEMPERATURE_LSB_REG -> LowByte(temperature)]

\* the state right after the constructor ran with (q, r) on device d
Constructed(q, r, d) ==
    LET c == LTC2942(q, r)
    IN  /\ Q = q /\ R = r
        /\ M = c.M /\ Num = c.Num /\ Den = c.Den /\ Offset = c.Offset
        /\ dev = d
        /\ op = "idle"
        /\ arg = 0 /\ ret = VOID /\ out = 0 /\ log = <<>>
        /\ ctrlBefore = d[CONTROL_REG]
        /\ lastSet = {}

(***************************************************************************)
(* Spec: the driver in use, every transaction free to fail                 *)
(***************************************************************************)
Calibrations == {<<2000, 10>>, <<100, 50>>, <<USHRT_MAX, 10>>, <<USHRT_MAX, USHRT_MAX>>}
StatusVals == {1}
CtrlVals == {60, 61, 226}
CodeVals == {4660, USHRT_MAX}

WireErrs == 0..MaxWireErr

Init ==
    \E qr \in Calibrations, st \in StatusVals, ctrl \in CtrlVals,
       ch \in ChargeVals, c \in CodeVals :
        Constructed(qr[1], qr[2], Device(st, ctrl, ch, c, c))

Next ==
    \/ \E ok \in BOOLEAN : ping(ok)
    \/ \E err \in WireErrs : init(err)
    \/ \E val \in ChargeVals, rdOk \in BOOLEAN, e \in [1..4 -> WireErrs] :
            setRawCharge(val, rdOk, e)
    \/ \E ok1, ok2 \in BOOLEAN : getRawCharge(ok1, ok2)
    \/ \E ok1, ok2 \in BOOLEAN : getVoltage(ok1, ok2)
    \/ \E ok1, ok2 \in BOOLEAN : getTemperature(ok1, ok2)
    \/ \E ok1, ok2 \in BOOLEAN : getAvailableCapacity(ok1, ok2)
    \/ \E code \in ChargeVals : Accumulate(code)
    \/ Return

Spec == Init /\ [][Next]_vars

(***************************************************************************)
(* SpecCal: the constructor applied to every capacity and to the sense     *)
(* resistors 1..MaxR                                                       *)
(***************************************************************************)
\* a device after power-up, registers at arbitrary fixed values
SomeDevice == Device(1, 60, 4660, 4660, 4660)

RCal == (1..MaxR) \cup {10, 50, 100, 1000, USHRT_MAX}

InitCal ==
    /\ Q \in 0..USHRT_MAX
    /\ R \in RCal
    /\ M = 0 /\ Num = 0 /\ Den = 0 /\ Offset = 0
    /\ dev = SomeDevice
    /\ op = "new"
    /\ arg = 0 /\ ret = VOID /\ out = 0 /\ log = <<>>
    /\ ctrlBefore = SomeDevice[CONTROL_REG]
    /\ lastSet = {}

NextCal == Construct

SpecCal == InitCal /\ [][NextCal]_vars

(***************************************************************************)
(* SpecRT: setRawCharge(v) on a transport that does not fail, then         *)
(* getRawCharge: every 16-bit v on two control values, and every control   *)
(* value with the charge values of Spec                                    *)
(***************************************************************************)
RTInputs == ((0..USHRT_MAX) \X {60, 226}) \cup (ChargeVals \X (0..255))

InitRT ==
    \E input \in RTInputs :
      LET v == input[1]
          ctrl == input[2]
      IN
        /\ Q = 2000 /\ R = 10
        /\ M = LTC2942(2000, 10).M /\ Num = LTC2942(2000, 10).Num
        /\ Den = LTC2942(2000, 10).Den /\ Offset = LTC2942(2000, 10).Offset
        /\ dev = Device(1, ctrl, 27859, 4660, 4660)
        /\ op = "idle"
        /\ arg = v /\ ret = VOID /\ out = 0 /\ log = <<>>
        /\ ctrlBefore = ctrl
        /\ lastSet = {}

NextRT ==
    \/ lastSet = {} /\ setRawCharge(arg, TRUE, [i \in 1..4 |-> 0])
    \/ lastSet # {} /\ \E ok1, ok2 \in BOOLEAN : getRawCharge(ok1, ok2)
    \/ Return

SpecRT == InitRT /\ [][NextRT]_vars

(***************************************************************************)
(* Properties                                                              *)
(***************************************************************************)
RECURSIVE Pow2(_)
Pow2(n) == IF n = 0 THEN 1 ELSE 2 * Pow2(n - 1)

\* capacity in mAh the accumulator covers with prescaler 2^m and resistor r
CoveredCapacity(m, r) == (278524 * Pow2(m)) \div (r * 128)

\* C6: after construction with R > 0 the prescaler index M is in 0..7 and 2^M
\* is the smallest prescaler whose representable capacity
\* floor(278524 * 2^M / R / 128) is at least Q; when no prescaler covers Q,
\* M is 7.
C6_SmallestCoveringPrescaler ==
    op # "new" =>
        /\ M \in 0..7
        /\ IF \E m \in 0..7 : CoveredCapacity(m, R) >= Q
           THEN /\ CoveredCapacity(M, R) >= Q
                /\ \A m \in 0..7 : m < M => CoveredCapacity(m, R) < Q
           ELSE M = 7

\* a prescaler strictly between the extremes was selected because the next
\* smaller one does not cover Q
C6_Witness ==
    /\ op = "idle"
    /\ M \in 1..6
    /\ CoveredCapacity(M, R) >= Q
    /\ CoveredCapacity(M - 1, R) < Q

\* the fallback: not even prescaler 128 covers Q
C6_WitnessFallback ==
    /\ op = "idle"
    /\ M = 7
    /\ CoveredCapacity(7, R) < Q

Accessors == {"getRawCharge", "getVoltage", "getTemperature", "getAvailableCapacity"}

\* the documented value an accessor stores when it fails
Sentinel(name) == IF name = "getTemperature" THEN SHRT_MAX ELSE USHRT_MAX

AllOk == \A i \in 1..Len(log) : log[i].ok
SomeFailed == \E i \in 1..Len(log) : ~log[i].ok

\* C1: if the final control-register write of setRawCharge succeeds and the
\* shutdown bit of the control register was clear before the call, the bit is
\* clear after the call, whatever failed among the earlier steps.
C1_NotLeftPoweredDown ==
    (/\ op = "setRawCharge"
     /\ log[5].ok
     /\ ctrlBefore % 2 = 0)
        => dev[CONTROL_REG] % 2 = 0

\* C2: getRawCharge after a setRawCharge(v) whose transactions all succeeded,
\* with no charge activity in between, returns success and v exactly.
C2_RoundTrip ==
    (/\ op = "getRawCharge"
     /\ AllOk
     /\ lastSet # {})
        => (ret = SUCCESS /\ lastSet = {out})

\* a value whose two bytes differ was written and read back
C2_Witness ==
    /\ op = "getRawCharge"
    /\ AllOk
    /\ lastSet = {4660}
    /\ out = 4660

C4_SentinelNeverAReading ==
    (/\ op \in {"getVoltage", "getTemperature", "getAvailableCapacity"}
     /\ AllOk)
        => out # Sentinel(op)

\* C5: on a successful read getTemperature stores a value within one unit of
\* (c * 6000 / 65536) - 2731, c the raw temperature code: tenths of a degree
\* Celsius.
C5_TemperatureTenthsCelsius ==
    (op = "getTemperature" /\ AllOk) =>
        LET c == dev[TEMPERATURE_MSB_REG] * 256 + dev[TEMPERATURE_LSB_REG]
            t == ((c * 6000) \div 65536) - 2731
        IN  out - t \in -1..1

\* C7: when every transaction of setRawCharge succeeds, the control register
\* after the call equals its value before the call.
C7_ControlRestored ==
    (op = "setRawCharge" /\ AllOk) => dev[CONTROL_REG] = ctrlBefore

\* the call ran on a device that was not shut down, and changed the charge
C7_Witness ==
    /\ op = "setRawCharge"
    /\ AllOk
    /\ ctrlBefore = 226
    /\ dev[CONTROL_REG] = 226
    /\ arg = 4660
    /\ dev[ACCUM_CHARGE_MSB_REG] * 256 + dev[ACCUM_CHARGE_LSB_REG] = arg

\* an operation looks successful when it returns SUCCESS, when ping returns
\* "present", and when it returns nothing at all
LooksSuccessful ==
    \/ op \in Accessors \cup {"setRawCharge"} /\ ret = SUCCESS
    \/ op = "ping" /\ ret = 1
    \/ op = "init" /\ ret = VOID

\* C8: no public operation looks successful after one of its register
\* transactions failed.
C8_FailureReported ==
    (op \notin {"new", "idle"} /\ SomeFailed) => ~LooksSuccessful

\* C9: setRawCharge issues exactly five transactions in this order: read
\* CONTROL, write CONTROL with the shutdown bit set, write the charge MSB to
\* register 2, write the charge LSB to register 3, write CONTROL with the saved
\* value; every one is attempted whatever the earlier ones did, and the result
\* is non-zero exactly when one of the five failed.
C9_FiveTransactionsInOrder ==
    op = "setRawCharge" =>
        LET saved == log[1].val
        IN  /\ Len(log) = 5
            /\ log[1].kind = "read" /\ log[1].reg = 1
            /\ log[1].ok => saved = ctrlBefore
            /\ log[2].kind = "write" /\ log[2].reg = 1
            /\ log[2].val = (IF saved % 2 = 1 THEN saved ELSE saved + 1)
            /\ log[3].kind = "write" /\ log[3].reg = 2
            /\ log[3].val = arg \div 256
            /\ log[4].kind = "write" /\ log[4].reg = 3
            /\ log[4].val = arg % 256
            /\ log[5].kind = "write" /\ log[5].reg = 1
            /\ log[5].val = saved
            /\ (ret # 0) <=> SomeFailed

\* the read and the MSB write failed, the later steps ran all the same
C9_Witness ==
    /\ op = "setRawCharge"
    /\ Len(log) = 5
    /\ ~log[1].ok /\ log[2].ok /\ ~log[3].ok /\ log[4].ok /\ log[5].ok
    /\ ret # 0

=============================================================================
